---- MODULE Spec2Model ----
(***************************************************************************)
(* Request width (seat) estimation of the API Priority & Fairness filter:  *)
(*   staging/src/k8s.io/apiserver/pkg/util/flowcontrol/request             *)
(* The dispatcher widthEstimator.estimate, the list estimator              *)
(* listWidthEstimator.estimate with shouldListFromStorage and key, and the *)
(* mutating estimator mutatingWidthEstimator.estimate.                     *)
(***************************************************************************)
EXTENDS Integers, FiniteSets, Sequences, TLC

(***************************************************************************)
(* Bounds of the model.                                                    *)
(***************************************************************************)
\* largest limit query parameter a request carries
MaxLimit == 1999
\* largest object count the object-count source reports
MaxCount == 1999
\* largest watch count the watch-count source reports
MaxWatch == 1999
\* number of keys the object-count source knows a non-zero count for
MaxCountEntries == 1
\* number of requests the filter estimates at the same time
NumCalls == 2

(***************************************************************************)
(* Program constants.                                                      *)
(***************************************************************************)
minimumSeats == 1
maximumSeats == 10
\* objects (or watchers) per seat: the literal float64(100)
objectsPerSeat == 100
\* Go's uint holds values modulo 2^64 on the 64-bit builds of the apiserver.
\* TLC's integers are 32 bits wide, so the modulus is represented by 2^30:
\* a wrapped value is only ever compared with minimumSeats and maximumSeats,
\* and for every float the model converts (magnitude below 2^20) it is above
\* maximumSeats under either modulus.
UintModulus == 2^30

(***************************************************************************)
(* Inputs.                                                                 *)
(***************************************************************************)
Verbs == {"list", "get", "watch", "create", "update", "patch", "delete", "proxy"}
APIGroups == {"", "foo.bar"}
Resources == {"resource"}

\* metav1.ListOptions.Limit is an int64 parsed with strconv.ParseInt: a
\* negative limit parses without error.
Limits == {-1, 0, 1, 100, 101, 499, MaxLimit}
Continues == {"", "token"}
ResourceVersions == {"", "0", "1"}
ResourceVersionMatches == {"", "Exact", "NotOlderThan"}

\* the object-count source returns an int64, 0 when the count is not known
Counts == {-100, 0, 1, 100, 799, MaxCount}
\* the watch-count source returns a non-negative int
WatchCounts == {0, 1, 100, 101, 299, 900, 901, MaxWatch}

\* apirequest.RequestInfoFrom(r.Context()): ok = FALSE when the request
\* context carries no RequestInfo
NoRequestInfo == [ok |-> FALSE, Verb |-> "", APIGroup |-> "", Resource |-> ""]
RequestInfos ==
    {NoRequestInfo} \cup
    [ok : {TRUE}, Verb : Verbs, APIGroup : APIGroups, Resource : Resources]

\* r.URL.Query() as metav1.Convert_url_Values_To_v1_ListOptions sees it:
\* err = TRUE when the conversion fails (say limit=abc), and then no option
\* is read; otherwise the converted ListOptions fields
MalformedQuery ==
    [err |-> TRUE, Limit |-> 0, Continue |-> "",
     ResourceVersion |-> "", ResourceVersionMatch |-> ""]
Queries ==
    {MalformedQuery} \cup
    [err : {FALSE}, Limit : Limits, Continue : Continues,
     ResourceVersion : ResourceVersions,
     ResourceVersionMatch : ResourceVersionMatches]

Requests == [info : RequestInfos, query : Queries]

\* float64 -> uint conversion of a negative value is implementation
\* dependent in Go: amd64 builds wrap modulo 2^64, arm64 builds saturate to 0
Conversions == {"wrap", "saturate"}

(***************************************************************************)
(* Pure functions.                                                         *)
(***************************************************************************)
\* schema.GroupResource.String() of the request's group and resource
key(requestInfo) ==
    IF requestInfo.APIGroup = ""
    THEN requestInfo.Resource
    ELSE requestInfo.Resource \o "." \o requestInfo.APIGroup

Keys == {key(i) : i \in RequestInfos \ {NoRequestInfo}}

\* CeilPerSeat that rounds towards zero, as an integer division does
FloorPerSeat(n) ==
    IF n >= 0
    THEN n \div objectsPerSeat
    ELSE -((-n) \div objectsPerSeat)

\* math.Ceil(float64(n) / float64(100)) as an integer; every n of the model
\* is far below 2^53, so the float64 quotient rounds as the exact one does,
\* and math.Ceil of a quotient in (-1, 0) is -0, which converts to 0
CeilPerSeat(n) ==
    IF n >= 0
    THEN (n + objectsPerSeat - 1) \div objectsPerSeat
    ELSE -((-n) \div objectsPerSeat)

\* uint(f) for an integral float64 f
FloatToUint(f, conv) ==
    IF f >= 0 THEN f
    ELSE IF conv = "wrap" THEN UintModulus + f ELSE 0

\* ClampSeats without its upper clamp
ClampSeatsNoMaximum(seats) ==
    IF seats < minimumSeats THEN minimumSeats ELSE seats

\* ClampSeats that takes a value above the maximum for an overflow and
\* answers the minimum
ClampSeatsOverflowToMinimum(seats) ==
    IF seats < minimumSeats \/ seats > maximumSeats THEN minimumSeats
    ELSE seats

\* ClampSeats with the two bounds assigned the wrong way round
ClampSeatsSwapped(seats) ==
    IF seats < minimumSeats THEN maximumSeats
    ELSE IF seats > maximumSeats THEN minimumSeats
    ELSE seats

\* the clamp both estimators end with
ClampSeats(seats) ==
    IF seats < minimumSeats THEN minimumSeats
    ELSE IF seats > maximumSeats THEN maximumSeats
    ELSE seats

\* shouldListFromStorage whose hasLimit forgets the resourceVersion "0"
shouldListFromStorageAnyLimit(opts, paging) ==
    LET resourceVersion == opts.ResourceVersion
        hasContinuation == paging /\ Len(opts.Continue) > 0
        hasLimit == paging /\ opts.Limit > 0
    IN  \/ resourceVersion = ""
        \/ hasContinuation
        \/ hasLimit
        \/ opts.ResourceVersionMatch = "Exact"

\* shouldListFromStorage that does not consult the APIListChunking gate
shouldListFromStorageUngated(opts, paging) ==
    LET resourceVersion == opts.ResourceVersion
        hasContinuation == Len(opts.Continue) > 0
        hasLimit == opts.Limit > 0 /\ resourceVersion # "0"
    IN  \/ resourceVersion = ""
        \/ hasContinuation
        \/ hasLimit
        \/ opts.ResourceVersionMatch = "Exact"

\* NOTICE: Keep in sync with shouldDelegateList of the cacher
shouldListFromStorage(opts, paging) ==
    LET resourceVersion == opts.ResourceVersion
        hasContinuation == paging /\ Len(opts.Continue) > 0
        hasLimit == paging /\ opts.Limit > 0 /\ resourceVersion # "0"
    IN  \/ resourceVersion = ""
        \/ hasContinuation
        \/ hasLimit
        \/ opts.ResourceVersionMatch = "Exact"

\* countNotKnown that looks at the limit only
countNotKnownLimitOnly(listOptions, isListFromCache, count) ==
    listOptions.Limit = 0 /\ count = 0

\* the unknown-count test of listWidthEstimator.estimate
countNotKnown(listOptions, isListFromCache, count) ==
    (listOptions.Limit = 0 \/ isListFromCache) /\ count = 0

\* estimatedObjectsToBeProcessed that prefers a known count to the limit
estimatedObjectsPreferCount(listOptions, isListFromCache, count) ==
    IF isListFromCache \/ count # 0 THEN count
    ELSE listOptions.Limit

\* the switch of listWidthEstimator.estimate that picks the number of
\* objects the list is estimated to process
estimatedObjectsToBeProcessed(listOptions, isListFromCache, count) ==
    IF isListFromCache THEN count
    ELSE IF listOptions.Limit = 0 THEN count
    ELSE listOptions.Limit

\* listWidthEstimator.estimate that fails expensive on a query it cannot
\* convert, as it does on a missing RequestInfo
listWidthEstimateParseErrorMaximum(r, countFn, paging, conv) ==
    IF ~r.info.ok THEN maximumSeats
    ELSE IF r.query.err THEN maximumSeats
    ELSE
      LET listOptions == r.query
          count == countFn[key(r.info)]
          isListFromCache == ~shouldListFromStorage(listOptions, paging)
      IN  IF countNotKnown(listOptions, isListFromCache, count)
          THEN maximumSeats
          ELSE ClampSeats(FloatToUint(
                 CeilPerSeat(estimatedObjectsToBeProcessed(
                                 listOptions, isListFromCache, count)),
                 conv))

\* listWidthEstimator.estimate: the seats of request r, given the contents of
\* the object-count source and the APIListChunking feature gate
listWidthEstimate(r, countFn, paging, conv) ==
    IF ~r.info.ok THEN maximumSeats
    ELSE IF r.query.err THEN minimumSeats
    ELSE
      LET listOptions == r.query
          count == countFn[key(r.info)]
          isListFromCache == ~shouldListFromStorage(listOptions, paging)
      IN  IF countNotKnown(listOptions, isListFromCache, count)
          THEN maximumSeats
          ELSE ClampSeats(FloatToUint(
                 CeilPerSeat(estimatedObjectsToBeProcessed(
                                 listOptions, isListFromCache, count)),
                 conv))

\* mutatingWidthEstimator.estimate: the seats of request r, given the value
\* the watch-count source returns for its RequestInfo
mutatingWidthEstimate(r, watchCount, conv) ==
    IF ~r.info.ok THEN maximumSeats
    ELSE ClampSeats(FloatToUint(CeilPerSeat(watchCount), conv))

\* widthEstimator.estimate that answers the default width when the request
\* has no RequestInfo
widthEstimateNoInfoMinimum(r, countFn, paging, conv) ==
    IF ~r.info.ok THEN minimumSeats
    ELSE IF r.info.Verb = "list"
         THEN listWidthEstimate(r, countFn, paging, conv)
         ELSE minimumSeats

\* widthEstimator.estimate that sends every verb to the list estimator
widthEstimateEveryVerbAsList(r, countFn, paging, conv) ==
    IF ~r.info.ok THEN maximumSeats
    ELSE listWidthEstimate(r, countFn, paging, conv)

\* widthEstimator.estimate, the function NewWidthEstimator returns
widthEstimate(r, countFn, paging, conv) ==
    IF ~r.info.ok THEN maximumSeats
    ELSE IF r.info.Verb = "list"
         THEN listWidthEstimate(r, countFn, paging, conv)
         ELSE minimumSeats

(***************************************************************************)
(* State.                                                                  *)
(***************************************************************************)
VARIABLES
    objectCounts,   \* the object-count source: key -> count, 0 = not known
    watchCounts,    \* the value the watch-count source returns
    pagingEnabled,  \* the APIListChunking feature gate
    last,           \* the last call: estimator, request and Width returned
    prev,           \* the call before it, when last re-issued its request
    prevObjectCounts, \* the object-count source as the call in prev read it
    calls           \* the calls in progress, one per request goroutine

vars == <<objectCounts, watchCounts, pagingEnabled, last, prev,
          prevObjectCounts, calls>>

\* the object-count source: a map of counts, a key it does not hold reads 0
ObjectCountSources ==
    {f \in [Keys -> Counts] :
        Cardinality({k \in Keys : f[k] # 0}) <= MaxCountEntries}

\* no call has returned: the estimator is idle
NoCall ==
    [estimator |-> "none",
     r |-> [info |-> NoRequestInfo, query |-> MalformedQuery],
     Seats |-> 0]

\* the goroutines that serve requests
CallIds == 1..NumCalls

\* a goroutine that is not inside an estimator: pc is the place of the call
\* in the code, count the value its countFn.Get returned and reads the
\* number of times it called countFn.Get
IdleCall ==
    [pc |-> "idle", estimator |-> "none",
     r |-> [info |-> NoRequestInfo, query |-> MalformedQuery],
     count |-> 0, reads |-> 0, Seats |-> 0]

Init ==
    /\ objectCounts \in ObjectCountSources
    /\ watchCounts \in WatchCounts
    /\ pagingEnabled \in BOOLEAN
    /\ last = NoCall
    /\ prev = NoCall
    /\ prevObjectCounts = objectCounts
    /\ calls = [i \in CallIds |-> IdleCall]

\* estimator.EstimateWidth(req) of the estimator NewWidthEstimator built,
\* on a request r the filter hands it; last holds the Width it returned
EstimateWidth ==
    /\ last = NoCall
    /\ \E r \in Requests, conv \in Conversions :
        last' = [estimator |-> "width", r |-> r,
                 Seats |-> widthEstimate(r, objectCounts, pagingEnabled, conv)]
    /\ UNCHANGED <<objectCounts, watchCounts, pagingEnabled, prev,
                   prevObjectCounts, calls>>

\* the function newMutatingWidthEstimator returns, called on a request r
MutatingEstimateWidth ==
    /\ last = NoCall
    /\ \E r \in Requests, conv \in Conversions :
        last' = [estimator |-> "mutating", r |-> r,
                 Seats |-> mutatingWidthEstimate(r, watchCounts, conv)]
    /\ UNCHANGED <<objectCounts, watchCounts, pagingEnabled, prev,
                   prevObjectCounts, calls>>

\* the function newListWidthEstimator returns, called on a request r
ListEstimateWidth ==
    /\ last = NoCall
    /\ \E r \in Requests, conv \in Conversions :
        last' = [estimator |-> "list", r |-> r,
                 Seats |-> listWidthEstimate(r, objectCounts, pagingEnabled, conv)]
    /\ UNCHANGED <<objectCounts, watchCounts, pagingEnabled, prev,
                   prevObjectCounts, calls>>

\* EstimateWidth on the list request of the last call sent again with a
\* limit of the client's choice, as a client does that pages through a list.
\* Both calls run in one build of the apiserver: the conversion that
\* produces the new Width is one that produced the last
EstimateWidthAgain ==
    /\ last.estimator = "width"
    /\ prev = NoCall
    /\ last.r.info.ok
    /\ last.r.info.Verb = "list"
    /\ ~last.r.query.err
    /\ \E l \in Limits, conv \in Conversions :
        LET r == [last.r EXCEPT !.query.Limit = l]
        IN  /\ last.Seats = widthEstimate(last.r, objectCounts, pagingEnabled, conv)
            /\ last' = [estimator |-> "width", r |-> r,
                        Seats |-> widthEstimate(r, objectCounts, pagingEnabled, conv)]
    /\ prev' = last
    /\ UNCHANGED <<objectCounts, watchCounts, pagingEnabled,
                   prevObjectCounts, calls>>

\* EstimateWidth on the list request of the last call sent again after the
\* subsystem that fills the object-count source has stored another count
\* for the request's key; both calls run in one build of the apiserver
EstimateWidthAfterCountUpdate ==
    /\ last.estimator = "width"
    /\ prev = NoCall
    /\ last.r.info.ok
    /\ last.r.info.Verb = "list"
    /\ ~last.r.query.err
    /\ \E c \in Counts :
        /\ objectCounts' = [objectCounts EXCEPT ![key(last.r.info)] = c]
        /\ objectCounts' \in ObjectCountSources
    /\ \E conv \in Conversions :
        /\ last.Seats = widthEstimate(last.r, objectCounts, pagingEnabled, conv)
        /\ last' = [estimator |-> "width", r |-> last.r,
                    Seats |-> widthEstimate(last.r, objectCounts', pagingEnabled, conv)]
    /\ prev' = last
    /\ prevObjectCounts' = objectCounts
    /\ UNCHANGED <<watchCounts, pagingEnabled, calls>>

\* the filter has consumed the Width; the next request can be estimated
Consume ==
    /\ last # NoCall
    /\ last' = NoCall
    /\ prev' = NoCall
    /\ prevObjectCounts' = objectCounts
    /\ UNCHANGED <<objectCounts, watchCounts, pagingEnabled, calls>>

Next ==
    \/ EstimateWidth
    \/ MutatingEstimateWidth
    \/ ListEstimateWidth
    \/ EstimateWidthAgain
    \/ EstimateWidthAfterCountUpdate
    \/ Consume

Spec == Init /\ [][Next]_vars

(***************************************************************************)
(* Concurrent calls.  Every request goroutine runs the estimator on its    *)
(* own request while a separate subsystem stores new counts in the two     *)
(* count sources.  A call is cut at its one read of a count source: what   *)
(* comes before and after the read touches the call's own locals only.     *)
(***************************************************************************)
\* the requests of the concurrent calls: one for every path of the code
ListInfo == [ok |-> TRUE, Verb |-> "list", APIGroup |-> "foo.bar", Resource |-> "resource"]
ConcurrentRequests ==
    { [info |-> NoRequestInfo, query |-> MalformedQuery],
      [info |-> [ListInfo EXCEPT !.Verb = "get"], query |-> MalformedQuery],
      [info |-> [ListInfo EXCEPT !.Verb = "create"], query |-> MalformedQuery],
      [info |-> ListInfo, query |-> MalformedQuery],
      \* resourceVersion=0&limit=499: served from cache
      [info |-> ListInfo,
       query |-> [err |-> FALSE, Limit |-> 499, Continue |-> "",
                  ResourceVersion |-> "0", ResourceVersionMatch |-> ""]],
      \* no query parameters: served from storage, no limit
      [info |-> ListInfo,
       query |-> [err |-> FALSE, Limit |-> 0, Continue |-> "",
                  ResourceVersion |-> "", ResourceVersionMatch |-> ""]],
      \* resourceVersion=1&limit=499: from storage when paging is enabled
      [info |-> ListInfo,
       query |-> [err |-> FALSE, Limit |-> 499, Continue |-> "",
                  ResourceVersion |-> "1", ResourceVersionMatch |-> ""]] }

\* the counts the subsystem stores while calls are in progress
ConcurrentCounts == {0, 799, MaxCount}
ConcurrentWatchCounts == {0, 299}

InitConcurrent ==
    /\ objectCounts = [k \in Keys |-> 0]
    /\ watchCounts = 0
    /\ pagingEnabled \in BOOLEAN
    /\ last = NoCall
    /\ prev = NoCall
    /\ prevObjectCounts = objectCounts
    /\ calls = [i \in CallIds |-> IdleCall]

\* widthEstimator.estimate up to its return or its call of the list
\* estimator (list_width.go:191-204)
WidthBegin(i) ==
    /\ calls[i].pc = "idle"
    /\ \E r \in ConcurrentRequests :
        calls' = [calls EXCEPT ![i] =
            IF ~r.info.ok
            THEN [IdleCall EXCEPT !.pc = "done", !.estimator = "width",
                                  !.r = r, !.Seats = maximumSeats]
            ELSE IF r.info.Verb = "list"
            THEN [IdleCall EXCEPT !.pc = "list", !.estimator = "width", !.r = r]
            ELSE [IdleCall EXCEPT !.pc = "done", !.estimator = "width",
                                  !.r = r, !.Seats = minimumSeats]]
    /\ UNCHANGED <<objectCounts, watchCounts, pagingEnabled, last, prev,
                   prevObjectCounts>>

\* listWidthEstimator.estimate from its entry to count := e.countFn.Get(...)
\* (list_width.go:44-58)
ListGetCount(i) ==
    /\ calls[i].pc = "list"
    /\ LET c == calls[i]
       IN  calls' = [calls EXCEPT ![i] =
            IF ~c.r.info.ok
            THEN [c EXCEPT !.pc = "done", !.Seats = maximumSeats]
            ELSE IF c.r.query.err
            THEN [c EXCEPT !.pc = "done", !.Seats = minimumSeats]
            ELSE [c EXCEPT !.pc = "counted",
                           !.count = objectCounts[key(c.r.info)],
                           !.reads = c.reads + 1]]
    /\ UNCHANGED <<objectCounts, watchCounts, pagingEnabled, last, prev,
                   prevObjectCounts>>

\* the seats listWidthEstimator.estimate computes from the count it holds
\* (list_width.go:59-100)
listSeatsOfCount(c, paging, conv) ==
    LET listOptions == c.r.query
        count == c.count
        isListFromCache == ~shouldListFromStorage(listOptions, paging)
    IN  IF countNotKnown(listOptions, isListFromCache, count)
        THEN maximumSeats
        ELSE ClampSeats(FloatToUint(
               CeilPerSeat(estimatedObjectsToBeProcessed(
                               listOptions, isListFromCache, count)),
               conv))

\* ListReturn that calls countFn.Get a second time where it needs the count
ListReturnGetsCountAgain(i) ==
    /\ calls[i].pc = "counted"
    /\ \E conv \in Conversions :
        LET c == [calls[i] EXCEPT !.count = objectCounts[key(calls[i].r.info)]]
        IN  calls' = [calls EXCEPT ![i] =
                [calls[i] EXCEPT !.pc = "done",
                          !.Seats = listSeatsOfCount(c, pagingEnabled, conv)]]
    /\ UNCHANGED <<objectCounts, watchCounts, pagingEnabled, last, prev,
                   prevObjectCounts>>

\* listWidthEstimator.estimate from the count to its return
ListReturn(i) ==
    /\ calls[i].pc = "counted"
    /\ \E conv \in Conversions :
        calls' = [calls EXCEPT ![i] =
            [calls[i] EXCEPT !.pc = "done",
                      !.Seats = listSeatsOfCount(calls[i], pagingEnabled, conv)]]
    /\ UNCHANGED <<objectCounts, watchCounts, pagingEnabled, last, prev,
                   prevObjectCounts>>

\* mutatingWidthEstimator.estimate from its entry to
\* watchCount := e.countFn.Get(requestInfo) (mutating_width.go:38-43), on
\* the requests the mutating estimator is built for
MutatingGetCount(i) ==
    /\ calls[i].pc = "idle"
    /\ \E r \in ConcurrentRequests :
        /\ ~r.info.ok \/ r.info.Verb = "create"
        /\ calls' = [calls EXCEPT ![i] =
            IF ~r.info.ok
            THEN [IdleCall EXCEPT !.pc = "done", !.estimator = "mutating",
                                  !.r = r, !.Seats = maximumSeats]
            ELSE [IdleCall EXCEPT !.pc = "watched", !.estimator = "mutating",
                                  !.r = r, !.count = watchCounts, !.reads = 1]]
    /\ UNCHANGED <<objectCounts, watchCounts, pagingEnabled, last, prev,
                   prevObjectCounts>>

\* mutatingWidthEstimator.estimate from the watch count to its return
\* (mutating_width.go:53-60)
MutatingReturn(i) ==
    /\ calls[i].pc = "watched"
    /\ \E conv \in Conversions :
        calls' = [calls EXCEPT ![i] =
            [calls[i] EXCEPT !.pc = "done",
                      !.Seats = ClampSeats(FloatToUint(
                                    CeilPerSeat(calls[i].count), conv))]]
    /\ UNCHANGED <<objectCounts, watchCounts, pagingEnabled, last, prev,
                   prevObjectCounts>>

\* the filter has taken the Width; the goroutine serves its next request
Returned(i) ==
    /\ calls[i].pc = "done"
    /\ calls' = [calls EXCEPT ![i] = IdleCall]
    /\ UNCHANGED <<objectCounts, watchCounts, pagingEnabled, last, prev,
                   prevObjectCounts>>

\* the subsystem that fills the object-count source stores a count
UpdateObjectCount ==
    /\ \E k \in Keys, c \in ConcurrentCounts :
        /\ objectCounts[k] # c
        /\ objectCounts' = [objectCounts EXCEPT ![k] = c]
        /\ objectCounts' \in ObjectCountSources
    /\ prevObjectCounts' = objectCounts'
    /\ UNCHANGED <<watchCounts, pagingEnabled, last, prev, calls>>

\* a watcher registers or goes away
UpdateWatchCount ==
    /\ \E w \in ConcurrentWatchCounts :
        /\ watchCounts # w
        /\ watchCounts' = w
    /\ UNCHANGED <<objectCounts, pagingEnabled, last, prev,
                   prevObjectCounts, calls>>

NextConcurrent ==
    \/ \E i \in CallIds : WidthBegin(i)
    \/ \E i \in CallIds : ListGetCount(i)
    \/ \E i \in CallIds : ListReturn(i)
    \/ \E i \in CallIds : MutatingGetCount(i)
    \/ \E i \in CallIds : MutatingReturn(i)
    \/ \E i \in CallIds : Returned(i)
    \/ UpdateObjectCount
    \/ UpdateWatchCount

SpecConcurrent == InitConcurrent /\ [][NextConcurrent]_vars

(***************************************************************************)
(* Vocabulary of the properties.                                           *)
(***************************************************************************)
\* the verbs that change stored state
MutatingVerbs == {"create", "update", "patch", "delete"}

\* a call of the public entry point has returned
WidthReturned == last.estimator = "width"

\* the last call was EstimateWidth on a list request with a descriptor
ListCall ==
    /\ WidthReturned
    /\ last.r.info.ok
    /\ last.r.info.Verb = "list"

\* ... whose query parameters converted to ListOptions
WellFormedListCall == ListCall /\ ~last.r.query.err

\* the count the object-count source holds for the last request's key
LastCount == objectCounts[key(last.r.info)]

\* ceil(n / 100) for n >= 0, by its defining inequalities
SeatsCeil(n) ==
    CHOOSE c \in 0..((n \div 100) + 1) : 100 * c >= n /\ 100 * (c - 1) < n

\* min(10, max(1, ceil(n / 100))) for n >= 0
SeatsFor(n) ==
    LET c == SeatsCeil(n)
        lo == IF c < 1 THEN 1 ELSE c
    IN  IF lo > 10 THEN 10 ELSE lo

\* the four conditions that send a list to storage
WillServeFromStorage(opts, paging) ==
    \/ opts.ResourceVersion = ""
    \/ paging /\ opts.Continue # ""
    \/ paging /\ opts.Limit > 0 /\ opts.ResourceVersion # "0"
    \/ opts.ResourceVersionMatch = "Exact"

TypeOK ==
    /\ objectCounts \in ObjectCountSources
    /\ watchCounts \in WatchCounts
    /\ pagingEnabled \in BOOLEAN
    /\ last.r \in Requests
    /\ last.Seats \in 0..maximumSeats
    /\ prev # NoCall => last # NoCall

(***************************************************************************)
(* C1: whatever the request, the counts and the feature gate, the Width    *)
(* EstimateWidth returns has 1 <= Seats <= 10, and so has the Width the    *)
(* list estimator and the mutating estimator return.                       *)
(***************************************************************************)
C1_SeatsInRange ==
    /\ last # NoCall => last.Seats >= 1 /\ last.Seats <= 10
    /\ prev # NoCall => prev.Seats >= 1 /\ prev.Seats <= 10

\* a list served from storage whose limit alone asks for 20 seats
C1_Witness ==
    /\ WellFormedListCall
    /\ shouldListFromStorage(last.r.query, pagingEnabled)
    /\ last.r.query.Limit = MaxLimit
    /\ last.Seats = 10

(***************************************************************************)
(* C2: a request without RequestInfo gets exactly 10 seats from            *)
(* EstimateWidth, whatever its query parameters and the count sources; the *)
(* list estimator called on its own answers the same.                      *)
(***************************************************************************)
C2_NoRequestInfoGetsMaximum ==
    last.estimator \in {"width", "list"} /\ ~last.r.info.ok
        => last.Seats = 10

\* no descriptor, a query that does not convert, and both counts known
C2_Witness ==
    /\ WidthReturned
    /\ ~last.r.info.ok
    /\ last.r.query.err
    /\ \E k \in Keys : objectCounts[k] = 1
    /\ watchCounts = 100
    /\ last.Seats = 10

(***************************************************************************)
(* C3: for the verbs create, update, patch and delete EstimateWidth        *)
(* returns min(10, max(1, ceil(watchCount / 100))).                        *)
(***************************************************************************)
C3_MutatingVerbsUseWatchCount ==
    WidthReturned /\ last.r.info.ok /\ last.r.info.Verb \in MutatingVerbs
        => last.Seats = SeatsFor(watchCounts)

(***************************************************************************)
(* C4: with a descriptor whose verb is neither list nor a mutating verb,   *)
(* EstimateWidth returns exactly 1 seat, whatever the query parameters and *)
(* the counts.                                                             *)
(***************************************************************************)
C4_OtherVerbsGetMinimum ==
    /\ WidthReturned
    /\ last.r.info.ok
    /\ last.r.info.Verb \notin ({"list"} \cup MutatingVerbs)
    => last.Seats = 1

\* a get that would cost 10 seats as a list: count not known, no limit
C4_Witness ==
    /\ WidthReturned
    /\ last.r.info.ok
    /\ last.r.info.Verb = "get"
    /\ ~last.r.query.err
    /\ last.r.query.Limit = 0
    /\ LastCount = 0
    /\ watchCounts = MaxWatch
    /\ last.Seats = 1

(***************************************************************************)
(* C5: a well-formed list that is served from storage with limit > 0 gets  *)
(* min(10, max(1, ceil(limit / 100))) seats, whatever the object count and *)
(* the continue token.                                                     *)
(***************************************************************************)
C5_StorageListCostsItsLimit ==
    /\ WellFormedListCall
    /\ shouldListFromStorage(last.r.query, pagingEnabled)
    /\ last.r.query.Limit > 0
    => last.Seats = SeatsFor(last.r.query.Limit)

\* continue=token&limit=499&resourceVersion=1 against 799 objects: 5 seats
C5_Witness ==
    /\ WellFormedListCall
    /\ pagingEnabled
    /\ last.r.query.Continue = "token"
    /\ last.r.query.ResourceVersion = "1"
    /\ last.r.query.Limit = 499
    /\ LastCount = 799
    /\ last.Seats = 5

(***************************************************************************)
(* C6, as claimed: a well-formed list with resourceVersion "0", a positive *)
(* limit and a known count gets min(10, max(1, ceil(count / 100))) seats,  *)
(* for every continue token, resourceVersionMatch and paging flag.         *)
(***************************************************************************)
C6_Original ==
    /\ WellFormedListCall
    /\ last.r.query.ResourceVersion = "0"
    /\ last.r.query.Limit > 0
    /\ LastCount > 0
    => last.Seats = SeatsFor(LastCount)

(***************************************************************************)
(* C6, amended: a well-formed list with resourceVersion "0", a positive    *)
(* limit and a known count gets min(10, max(1, ceil(count / 100))) seats   *)
(* provided resourceVersionMatch is not Exact and the request carries no   *)
(* continue token while paging is enabled.                                 *)
(***************************************************************************)
C6_ZeroResourceVersionCostsCount ==
    /\ WellFormedListCall
    /\ last.r.query.ResourceVersion = "0"
    /\ last.r.query.Limit > 0
    /\ LastCount > 0
    /\ last.r.query.ResourceVersionMatch # "Exact"
    /\ ~(pagingEnabled /\ last.r.query.Continue # "")
    => last.Seats = SeatsFor(LastCount)

\* resourceVersion=0&limit=1 with paging enabled against 799 objects: 8 seats
C6_Witness ==
    /\ WellFormedListCall
    /\ pagingEnabled
    /\ last.r.query.ResourceVersion = "0"
    /\ last.r.query.Limit = 1
    /\ last.r.query.Continue = ""
    /\ last.r.query.ResourceVersionMatch = ""
    /\ LastCount = 799
    /\ last.Seats = 8

(***************************************************************************)
(* C7: a well-formed list whose object count is 0 (not known) gets 10      *)
(* seats when its limit is 0 or when it is served from cache.              *)
(***************************************************************************)
C7_UnknownCountGetsMaximum ==
    /\ WellFormedListCall
    /\ LastCount = 0
    /\ \/ last.r.query.Limit = 0
       \/ ~shouldListFromStorage(last.r.query, pagingEnabled)
    => last.Seats = 10

\* resourceVersion=0&limit=1 served from cache, count not known: 10 seats
C7_Witness ==
    /\ WellFormedListCall
    /\ pagingEnabled
    /\ last.r.query.ResourceVersion = "0"
    /\ last.r.query.Limit = 1
    /\ ~shouldListFromStorage(last.r.query, pagingEnabled)
    /\ LastCount = 0
    /\ last.Seats = 10

(***************************************************************************)
(* C8: shouldListFromStorage is TRUE exactly when resourceVersion is       *)
(* empty, or paging is enabled and continue is set, or paging is enabled   *)
(* and limit > 0 and resourceVersion is not "0", or resourceVersionMatch   *)
(* is Exact; so with paging disabled neither a limit nor a continue token  *)
(* sends the list to storage.                                              *)
(***************************************************************************)
C8_ServingDecision ==
    WellFormedListCall =>
        /\ shouldListFromStorage(last.r.query, pagingEnabled)
             <=> WillServeFromStorage(last.r.query, pagingEnabled)
        /\ /\ ~pagingEnabled
           /\ last.r.query.ResourceVersion # ""
           /\ last.r.query.ResourceVersionMatch # "Exact"
           => ~shouldListFromStorage(last.r.query, pagingEnabled)

\* paging disabled: a limit and a continue token leave the list on the
\* cache, which costs the 799 objects counted and not the limit of 100
C8_Witness ==
    /\ WellFormedListCall
    /\ ~pagingEnabled
    /\ last.r.query.ResourceVersion = "1"
    /\ last.r.query.Continue = "token"
    /\ last.r.query.Limit = 100
    /\ LastCount = 799
    /\ ~shouldListFromStorage(last.r.query, pagingEnabled)
    /\ last.Seats = 8

(***************************************************************************)
(* C9: a list request with a descriptor whose query parameters do not      *)
(* convert to ListOptions gets exactly 1 seat, whatever the object count   *)
(* (0 = not known included), while a missing descriptor gets 10.           *)
(***************************************************************************)
C9_MalformedQueryGetsMinimum ==
    ListCall /\ last.r.query.err => last.Seats = 1

\* the count is not known, which a well-formed list without limit pays 10
\* seats for
C9_Witness ==
    /\ ListCall
    /\ last.r.query.err
    /\ LastCount = 0
    /\ last.Seats = 1

(***************************************************************************)
(* C10: two list requests that differ only in limit, both served from      *)
(* storage against the same object count, with 0 < l1 <= l2: the seats of  *)
(* the first are at most the seats of the second.                          *)
(***************************************************************************)
StorageListPair(a, b) ==
    /\ a.estimator = "width" /\ b.estimator = "width"
    /\ a.r.info.ok /\ a.r.info.Verb = "list" /\ ~a.r.query.err
    /\ b.r = [a.r EXCEPT !.query.Limit = b.r.query.Limit]
    /\ prevObjectCounts = objectCounts
    /\ shouldListFromStorage(a.r.query, pagingEnabled)
    /\ shouldListFromStorage(b.r.query, pagingEnabled)
    /\ 0 < a.r.query.Limit
    /\ a.r.query.Limit <= b.r.query.Limit

C10_SeatsMonotoneInLimit ==
    /\ StorageListPair(prev, last) => prev.Seats <= last.Seats
    /\ StorageListPair(last, prev) => last.Seats <= prev.Seats

\* limit=100 costs 1 seat, the same list with limit=499 costs 5
C10_Witness ==
    /\ StorageListPair(prev, last)
    /\ prev.r.query.Limit = 100
    /\ last.r.query.Limit = 499
    /\ prev.Seats = 1
    /\ last.Seats = 5

(***************************************************************************)
(* C11, as claimed: the same cache-served list estimated against two       *)
(* counts c1 <= c2 of the object-count source, 0 (not known) included,     *)
(* gets seats(c1) <= seats(c2).                                            *)
(***************************************************************************)
\* prev and last are EstimateWidth on one list request served from cache
CacheListPair ==
    /\ prev.estimator = "width"
    /\ WellFormedListCall
    /\ prev.r = last.r
    /\ ~shouldListFromStorage(last.r.query, pagingEnabled)

\* the count the call in prev read for its key
PrevCount == prevObjectCounts[key(prev.r.info)]

\* stated over the numbers of objects 0, 1, 2, ... only, where the Width
\* does not depend on how the build converts a negative float64 to uint
C11_Original ==
    CacheListPair /\ PrevCount >= 0 /\ LastCount >= 0 =>
        /\ PrevCount <= LastCount => prev.Seats <= last.Seats
        /\ LastCount <= PrevCount => last.Seats <= prev.Seats

(***************************************************************************)
(* C11, amended: the same cache-served list estimated against two known    *)
(* counts 0 < c1 <= c2 gets seats(c1) <= seats(c2); a count of 0 (not      *)
(* known) costs 10 seats, more than a small known count does.              *)
(***************************************************************************)
C11_SeatsMonotoneInKnownCount ==
    CacheListPair =>
        /\ 0 < PrevCount /\ PrevCount <= LastCount => prev.Seats <= last.Seats
        /\ 0 < LastCount /\ LastCount <= PrevCount => last.Seats <= prev.Seats

\* resourceVersion=0 against 100 objects costs 1 seat, against 799 it
\* costs 8
C11_Witness ==
    /\ CacheListPair
    /\ PrevCount = 100
    /\ LastCount = 799
    /\ last.r.query.ResourceVersion = "0"
    /\ prev.Seats = 1
    /\ last.Seats = 8

(***************************************************************************)
(* C12: concurrent calls do not interfere.  No step of a call writes to    *)
(* the object-count source, the watch-count source, or the request's       *)
(* descriptor and options; a call reads its count source at most once;     *)
(* and in every interleaving of the calls with updates of the count        *)
(* sources each call returns what the sequential estimator returns for its *)
(* request and the one count it read, so that calls with the same request  *)
(* and the same count return the same seats.                               *)
(***************************************************************************)
\* the sequential estimator on the request of call c and the count c read
SequentialSeats(c, conv) ==
    IF c.estimator = "width"
    THEN widthEstimate(c.r, [k \in Keys |-> c.count], pagingEnabled, conv)
    ELSE mutatingWidthEstimate(c.r, c.count, conv)

CallsAgreeWithSequential ==
    \A i \in CallIds :
        /\ calls[i].reads <= 1
        /\ calls[i].pc = "done" =>
            /\ \E conv \in Conversions :
                calls[i].Seats = SequentialSeats(calls[i], conv)
            /\ \A j \in CallIds :
                /\ calls[j].pc = "done"
                /\ calls[j].estimator = calls[i].estimator
                /\ calls[j].r = calls[i].r
                /\ calls[j].count = calls[i].count
                => calls[j].Seats = calls[i].Seats

CallStepsWriteNothingShared ==
    /\ calls' # calls =>
        /\ objectCounts' = objectCounts
        /\ watchCounts' = watchCounts
        /\ pagingEnabled' = pagingEnabled
    /\ \A i \in CallIds :
        calls[i].pc # "idle" /\ calls'[i].pc # "idle" =>
            /\ calls'[i].r = calls[i].r
            /\ calls[i].reads = 1 => calls'[i].count = calls[i].count

C12_CallsDoNotInterfere ==
    /\ []CallsAgreeWithSequential
    /\ [][CallStepsWriteNothingShared]_vars

\* two calls on the same cache-served list: the first read 799 objects and
\* returns 8 seats although the source has since been updated, the second
\* read the 1999 objects the source holds now and returns 10
C12_Witness ==
    /\ calls[1].pc = "done" /\ calls[2].pc = "done"
    /\ calls[1].r = calls[2].r
    /\ calls[1].r.info.Verb = "list"
    /\ calls[1].r.query.ResourceVersion = "0"
    /\ calls[1].count = 799
    /\ calls[2].count = MaxCount
    /\ objectCounts[key(calls[1].r.info)] = MaxCount
    /\ calls[1].Seats = 8
    /\ calls[2].Seats = 10

(***************************************************************************)
(* C13: the mutating estimator returns 10 seats when the request has no    *)
(* RequestInfo and min(10, max(1, ceil(watchCount / 100))) otherwise:      *)
(* 0 and 1..100 watchers give 1 seat, 101 give 2, 900 give 9, 901 and more *)
(* give 10, whatever the query parameters and the object counts.           *)
(***************************************************************************)
C13_MutatingSeats ==
    last.estimator = "mutating" =>
        /\ ~last.r.info.ok => last.Seats = 10
        /\ last.r.info.ok =>
            /\ last.Seats = SeatsFor(watchCounts)
            /\ watchCounts <= 100 => last.Seats = 1
            /\ watchCounts = 101 => last.Seats = 2
            /\ watchCounts = 900 => last.Seats = 9
            /\ watchCounts >= 901 => last.Seats = 10

\* 101 watchers cost 2 seats, with a query that does not convert and an
\* object count that is known
C13_Witness ==
    /\ last.estimator = "mutating"
    /\ last.r.info.ok
    /\ last.r.info.Verb = "update"
    /\ last.r.query.err
    /\ LastCount = 799
    /\ watchCounts = 101
    /\ last.Seats = 2

(***************************************************************************)
(* C14: a well-formed list with a known object count (count > 0) gets      *)
(* min(10, max(1, ceil(count / 100))) seats when it is served from cache,  *)
(* whatever its limit, and when it is served from storage with a limit     *)
(* that is not greater than 0.                                             *)
(***************************************************************************)
C14_KnownCountCostsCount ==
    /\ WellFormedListCall
    /\ LastCount > 0
    /\ \/ ~shouldListFromStorage(last.r.query, pagingEnabled)
       \/ last.r.query.Limit <= 0
    => last.Seats = SeatsFor(LastCount)

====
